---------------------------- MODULE Spec2Model ----------------------------
(***************************************************************************)
(* A model of gobattlesim/interface.py: the GameMaster store (clear, feed, *)
(* apply and the search methods) and the IPokemon stat derivation          *)
(* (calc_cp, infer_level_and_IVs, __init__).                               *)
(*                                                                         *)
(* Representation of Python values                                         *)
(*   str     a sequence of one-character strings, so that split, join,     *)
(*           lower, strip, endswith and the regular expressions of feed    *)
(*           are computed character by character.  Dictionary keys that    *)
(*           the code only compares (JSON keys, setting names) are TLA+    *)
(*           strings.                                                      *)
(*   None    the empty sequence.                                           *)
(*   float   a CP multiplier m is kept as the integer m^2 * CPMDen.  Every *)
(*           use of a multiplier in the code is either m^2 times a         *)
(*           rational (calc_cp: Atk * sqrt(Def * Stm) = m^2 * ...), the    *)
(*           half-level rule sqrt((a^2 + b^2) / 2), whose square is        *)
(*           (a^2 + b^2) / 2, or m times an integer, which is kept as its  *)
(*           square.  Arithmetic is that of the reals: the rounding of     *)
(*           IEEE doubles is not modelled.                                 *)
(***************************************************************************)
EXTENDS Integers, Sequences, FiniteSets, TLC

VARIABLES
    Pokemon,                        \* GameMaster.Pokemon
    PvEMoves,                       \* GameMaster.PvEMoves
    PvPMoves,                       \* GameMaster.PvPMoves
    CPMultipliers,                  \* GameMaster.CPMultipliers
    WeatherSettings,                \* GameMaster.WeatherSettings
    FriendAttackBonusMultipliers,   \* GameMaster.FriendAttackBonusMultipliers
    TypeEffectiveness,              \* GameMaster.TypeEffectiveness
    PvEBattleSettings,              \* GameMaster.PvEBattleSettings
    PvPBattleSettings,              \* GameMaster.PvPBattleSettings
    binded_gm,                      \* IPokemon._binded_gm is this store (else the empty default)
    engine,                         \* the calls the engine has received from apply
    call                            \* the caller: the operation last called and its outcome

store_vars == << Pokemon, PvEMoves, PvPMoves, CPMultipliers, WeatherSettings,
                 FriendAttackBonusMultipliers, TypeEffectiveness,
                 PvEBattleSettings, PvPBattleSettings >>

vars == << Pokemon, PvEMoves, PvPMoves, CPMultipliers, WeatherSettings,
           FriendAttackBonusMultipliers, TypeEffectiveness,
           PvEBattleSettings, PvPBattleSettings, binded_gm, engine, call >>

---------------------------------------------------------------------------
(* Python built-ins used by the code.                                      *)

None == << >>

Max(a, b) == IF a >= b THEN a ELSE b

Min(a, b) == IF a <= b THEN a ELSE b

SetMax(S) == CHOOSE x \in S : \A y \in S : y <= x

SetMin(S) == CHOOSE x \in S : \A y \in S : x <= y

Range(s) == { s[i] : i \in DOMAIN s }

\* s[lo:hi] of a Python sequence, with 0-based lo and exclusive hi already
\* clipped to 0..len(s).
Slice(s, lo, hi) == IF lo >= hi THEN << >> ELSE SubSeq(s, lo + 1, hi)

RECURSIVE SqrtIter(_, _)
SqrtIter(n, x) ==
    LET y == (x + n \div x) \div 2
    IN  IF y >= x THEN x ELSE SqrtIter(n, y)

\* floor(sqrt(n)) for a natural number n (Newton's iteration from above).
isqrt(n) == IF n = 0 THEN 0 ELSE SqrtIter(n, n)

---------------------------------------------------------------------------
(* IPokemon.calc_cp                                                        *)

\* The denominator of a stored multiplier: an entry q stands for the
\* multiplier sqrt(q / CPMDen).
CPMDen == 50

\* calc_cp's floor: max(10, ...).
MinCP == 10

\* The largest individual value: range(16).
MaxIV == 15

IVs == 0 .. MaxIV

\* With cpm^2 = q / CPMDen:
\*   Atk * (Def * Stm) ** 0.5 / 10
\*     = q * (bAtk + atkiv) * sqrt((bDef + defiv) * (bStm + stmiv)) / (10 * CPMDen)
\* and int() of a non-negative number is its floor;
\* floor(sqrt(n) / d) = floor(floor(sqrt(n)) / d) for integers n >= 0, d > 0.
\* calc_cp with the stamina IV subtracted from the top IV instead of added.
calc_cp_InvertedStamina(bAtk, bDef, bStm, cpm, atkiv, defiv, stmiv) ==
    LET Atk == (bAtk + atkiv) * cpm
        DefStm == (bDef + defiv) * (bStm + (MaxIV - stmiv))
    IN  Max(MinCP, isqrt(Atk * Atk * DefStm) \div (10 * CPMDen))

calc_cp(bAtk, bDef, bStm, cpm, atkiv, defiv, stmiv) ==
    LET Atk == (bAtk + atkiv) * cpm
        DefStm == (bDef + defiv) * (bStm + stmiv)
    IN  Max(MinCP, isqrt(Atk * Atk * DefStm) \div (10 * CPMDen))

---------------------------------------------------------------------------
(* Python str methods, on sequences of characters.                         *)

UpperChars == << "A", "B", "C", "D", "E", "F", "G", "H", "I", "J", "K", "L", "M",
                 "N", "O", "P", "Q", "R", "S", "T", "U", "V", "W", "X", "Y", "Z" >>

LowerChars == << "a", "b", "c", "d", "e", "f", "g", "h", "i", "j", "k", "l", "m",
                 "n", "o", "p", "q", "r", "s", "t", "u", "v", "w", "x", "y", "z" >>

DigitChars == << "0", "1", "2", "3", "4", "5", "6", "7", "8", "9" >>

Whitespace == { " ", "\t", "\n" }

LowerChar(c) ==
    IF \E i \in DOMAIN UpperChars : UpperChars[i] = c
    THEN LowerChars[CHOOSE i \in DOMAIN UpperChars : UpperChars[i] = c]
    ELSE c

\* str.lower()
Lower(str) == [ i \in DOMAIN str |-> LowerChar(str[i]) ]

\* str.strip()
Strip(str) ==
    LET keep == { i \in DOMAIN str : str[i] \notin Whitespace }
    IN  IF keep = {} THEN << >> ELSE SubSeq(str, SetMin(keep), SetMax(keep))

StartsWith(str, prefix) ==
    /\ Len(prefix) <= Len(str)
    /\ SubSeq(str, 1, Len(prefix)) = prefix

\* str.endswith(suffix)
EndsWith(str, suffix) ==
    /\ Len(suffix) <= Len(str)
    /\ SubSeq(str, Len(str) - Len(suffix) + 1, Len(str)) = suffix

\* str[n:]
Drop(str, n) == SubSeq(str, n + 1, Len(str))

IsDigit(c) == \E i \in DOMAIN DigitChars : DigitChars[i] = c

\* \d+ matching the whole of str
IsDigits(str) == Len(str) > 0 /\ \A i \in DOMAIN str : IsDigit(str[i])

DigitValue(c) == (CHOOSE i \in DOMAIN DigitChars : DigitChars[i] = c) - 1

RECURSIVE ParseInt(_)
\* int(str) of a string of decimal digits
ParseInt(str) ==
    IF Len(str) = 0 THEN 0
    ELSE 10 * ParseInt(SubSeq(str, 1, Len(str) - 1)) + DigitValue(str[Len(str)])

RECURSIVE IntToStr(_)
\* str(n) of a natural number
IntToStr(n) ==
    IF n < 10 THEN << DigitChars[n + 1] >>
    ELSE Append(IntToStr(n \div 10), DigitChars[(n % 10) + 1])

RECURSIVE Split(_, _)
\* str.split(sep) for a one-character separator: the list of the pieces
\* between the separators (one piece more than there are separators).
Split(str, sep) ==
    LET at == { i \in DOMAIN str : str[i] = sep }
    IN  IF at = {} THEN << str >>
        ELSE << SubSeq(str, 1, SetMin(at) - 1) >> \o Split(Drop(str, SetMin(at)), sep)

RECURSIVE Join(_, _)
\* sep.join(pieces)
Join(pieces, sep) ==
    IF Len(pieces) = 0 THEN << >>
    ELSE IF Len(pieces) = 1 THEN pieces[1]
    ELSE pieces[1] \o << sep >> \o Join(Tail(pieces), sep)

\* The number of leading digits of str.
DigitRun(str) ==
    LET stop == { i \in DOMAIN str : ~ IsDigit(str[i]) }
    IN  IF stop = {} THEN Len(str) ELSE SetMin(stop) - 1

\* re.fullmatch(prefix + r'\d+' + middle + r'.+', str), for literal prefix
\* and a literal middle that begins with a non-digit.
MatchVersioned(str, prefix, middle) ==
    /\ StartsWith(str, prefix)
    /\ LET rest == Drop(str, Len(prefix))
           n == DigitRun(rest)
       IN  /\ n >= 1
           /\ StartsWith(Drop(rest, n), middle)
           /\ Len(rest) > n + Len(middle)

\* re.fullmatch(prefix + r'.+', str)
MatchPrefix(str, prefix) == StartsWith(str, prefix) /\ Len(str) > Len(prefix)

---------------------------------------------------------------------------
(* GameMaster: class attributes and rm_udrscrs                             *)

PoketypeList ==
    << <<"n","o","r","m","a","l">>,
       <<"f","i","g","h","t","i","n","g">>,
       <<"f","l","y","i","n","g">>,
       <<"p","o","i","s","o","n">>,
       <<"g","r","o","u","n","d">>,
       <<"r","o","c","k">>,
       <<"b","u","g">>,
       <<"g","h","o","s","t">>,
       <<"s","t","e","e","l">>,
       <<"f","i","r","e">>,
       <<"w","a","t","e","r">>,
       <<"g","r","a","s","s">>,
       <<"e","l","e","c","t","r","i","c">>,
       <<"p","s","y","c","h","i","c">>,
       <<"i","c","e">>,
       <<"d","r","a","g","o","n">>,
       <<"d","a","r","k">>,
       <<"f","a","i","r","y">> >>

HasPoketype(name) == \E i \in DOMAIN PoketypeList : PoketypeList[i] = name

\* InversedPoketypeList[name]: the 0-based index of a known type name.
InversedPoketypeList(name) == (CHOOSE i \in DOMAIN PoketypeList : PoketypeList[i] = name) - 1

rm_udrscrs(Str, Category) ==
    LET pieces == Split(Str, "_")
        lowered == [ i \in DOMAIN pieces |-> Lower(pieces[i]) ]
    IN  CASE Category = "p" -> Join(Drop(lowered, Min(2, Len(lowered))), " ")
          [] Category = "f" -> Join(SubSeq(lowered, 1, Len(lowered) - 1), " ")
          [] Category = "c" -> Join(lowered, " ")
          [] Category = "t" -> lowered[Len(lowered)]
          [] OTHER -> None

---------------------------------------------------------------------------
(* GameMaster.clear and GameMaster.feed                                    *)
(*                                                                         *)
(* A JSON object is a function from its keys; d[k] of a missing key raises *)
(* KeyError.  An operation that can raise returns [gm, raised]: the store  *)
(* as the operation left it and the exception ("" when it returned).       *)

EmptyDict == << >>

Has(d, k) == k \in DOMAIN d

\* d.get(k, default)
Get(d, k, default) == IF Has(d, k) THEN d[k] ELSE default

\* d[k] = v
DictSet(d, k, v) == [ x \in DOMAIN d \cup {k} |-> IF x = k THEN v ELSE d[x] ]

\* for k, v in src.items(): d[k] = v
DictUpdate(d, src) ==
    [ x \in DOMAIN d \cup DOMAIN src |-> IF x \in DOMAIN src THEN src[x] ELSE d[x] ]

Ok(gm) == [ gm |-> gm, raised |-> "" ]

Raise(gm, exception) == [ gm |-> gm, raised |-> exception ]

\* The store as one record, fields named as the attributes.
Store ==
    [ Pokemon |-> Pokemon, PvEMoves |-> PvEMoves, PvPMoves |-> PvPMoves,
      CPMultipliers |-> CPMultipliers, WeatherSettings |-> WeatherSettings,
      FriendAttackBonusMultipliers |-> FriendAttackBonusMultipliers,
      TypeEffectiveness |-> TypeEffectiveness,
      PvEBattleSettings |-> PvEBattleSettings,
      PvPBattleSettings |-> PvPBattleSettings ]

\* The store after clear(), and of GameMaster().
EmptyStore ==
    [ Pokemon |-> << >>, PvEMoves |-> << >>, PvPMoves |-> << >>,
      CPMultipliers |-> << >>, WeatherSettings |-> << >>,
      FriendAttackBonusMultipliers |-> << >>,
      TypeEffectiveness |-> EmptyDict,
      PvEBattleSettings |-> EmptyDict,
      PvPBattleSettings |-> EmptyDict ]

StoreBecomes(gm) ==
    /\ Pokemon' = gm.Pokemon
    /\ PvEMoves' = gm.PvEMoves
    /\ PvPMoves' = gm.PvPMoves
    /\ CPMultipliers' = gm.CPMultipliers
    /\ WeatherSettings' = gm.WeatherSettings
    /\ FriendAttackBonusMultipliers' = gm.FriendAttackBonusMultipliers
    /\ TypeEffectiveness' = gm.TypeEffectiveness
    /\ PvEBattleSettings' = gm.PvEBattleSettings
    /\ PvPBattleSettings' = gm.PvPBattleSettings

T_V == << "V" >>

T_POKEMON == << "_","P","O","K","E","M","O","N","_" >>

T_MOVE == << "_","M","O","V","E","_" >>

T_COMBAT_V == << "C","O","M","B","A","T","_","V" >>

T_FAST == << "_","F","A","S","T" >>

T_PLAYER_LEVEL_SETTINGS ==
    << "P","L","A","Y","E","R","_","L","E","V","E","L","_","S","E","T","T","I","N","G","S" >>

T_POKEMON_TYPE == << "P","O","K","E","M","O","N","_","T","Y","P","E","_" >>

T_BATTLE_SETTINGS == << "B","A","T","T","L","E","_","S","E","T","T","I","N","G","S" >>

T_COMBAT_SETTINGS == << "C","O","M","B","A","T","_","S","E","T","T","I","N","G","S" >>

T_COMBAT_STAT_STAGE_SETTINGS ==
    << "C","O","M","B","A","T","_","S","T","A","T","_","S","T","A","G","E","_",
       "S","E","T","T","I","N","G","S" >>

T_WEATHER_AFFINITY == << "W","E","A","T","H","E","R","_","A","F","F","I","N","I","T","Y","_" >>

T_WEATHER_BONUS_SETTINGS ==
    << "W","E","A","T","H","E","R","_","B","O","N","U","S","_","S","E","T","T","I","N","G","S" >>

T_FRIENDSHIP_LEVEL == << "F","R","I","E","N","D","S","H","I","P","_","L","E","V","E","L","_" >>

T_OVERCAST == << "O","V","E","R","C","A","S","T" >>

T_CLOUDY == << "C","L","O","U","D","Y" >>

\* Lines 166-184: a V<digits>_POKEMON_<name> template.
IngestPokemon(gm, template) ==
    IF ~ Has(template, "pokemonSettings") THEN Raise(gm, "KeyError")
    ELSE
    LET tid == template.templateId
        pkmInfo == template.pokemonSettings
    IN  IF \/ ~ Has(pkmInfo, "type")
           \/ ~ HasPoketype(rm_udrscrs(pkmInfo.type, "t"))
           \/ ~ Has(pkmInfo, "stats")
           \/ ~ Has(pkmInfo.stats, "baseAttack")
           \/ ~ Has(pkmInfo.stats, "baseDefense")
           \/ ~ Has(pkmInfo.stats, "baseStamina")
        THEN Raise(gm, "KeyError")
        ELSE
        LET type2 == rm_udrscrs(Get(pkmInfo, "type2", << >>), "t")
            quickMoves == Get(pkmInfo, "quickMoves", << >>)
            cinematicMoves == Get(pkmInfo, "cinematicMoves", << >>)
            evolutionIds == Get(pkmInfo, "evolutionIds", << >>)
            evolution == [ i \in DOMAIN evolutionIds |-> rm_udrscrs(evolutionIds[i], "p") ]
            pokemon ==
                [ dex |-> ParseInt(Drop(Split(tid, "_")[1], 1)),
                  name |-> rm_udrscrs(tid, "p"),
                  poketype1 |-> InversedPoketypeList(rm_udrscrs(pkmInfo.type, "t")),
                  poketype2 |-> IF HasPoketype(type2) THEN InversedPoketypeList(type2) ELSE -1,
                  baseAttack |-> pkmInfo.stats.baseAttack,
                  baseDefense |-> pkmInfo.stats.baseDefense,
                  baseStamina |-> pkmInfo.stats.baseStamina,
                  fastMoves |-> [ i \in DOMAIN quickMoves |-> rm_udrscrs(quickMoves[i], "f") ],
                  chargedMoves |->
                      [ i \in DOMAIN cinematicMoves |-> rm_udrscrs(cinematicMoves[i], "c") ] ]
            withEvolution ==
                IF Len(evolution) > 0 THEN DictSet(pokemon, "evolution", evolution) ELSE pokemon
            withRarity ==
                IF Has(pkmInfo, "rarity")
                THEN DictSet(withEvolution, "rarity", pkmInfo.rarity)
                ELSE withEvolution
        IN  Ok([ gm EXCEPT !.Pokemon = Append(@, withRarity) ])

\* Lines 187-198: a V<digits>_MOVE_<name> template.
IngestPvEMove(gm, template) ==
    IF ~ Has(template, "moveSettings") THEN Raise(gm, "KeyError")
    ELSE
    LET tid == template.templateId
        moveInfo == template.moveSettings
        movetype == IF EndsWith(tid, T_FAST) THEN "f" ELSE "c"
    IN  IF \/ ~ Has(moveInfo, "movementId")
           \/ ~ Has(moveInfo, "pokemonType")
           \/ ~ HasPoketype(rm_udrscrs(moveInfo.pokemonType, "t"))
           \/ ~ Has(moveInfo, "durationMs")
           \/ ~ Has(moveInfo, "damageWindowStartMs")
        THEN Raise(gm, "KeyError")
        ELSE
        LET move ==
                [ movetype |-> movetype,
                  name |-> rm_udrscrs(moveInfo.movementId, movetype),
                  poketype |-> InversedPoketypeList(rm_udrscrs(moveInfo.pokemonType, "t")),
                  power |-> Get(moveInfo, "power", 0),
                  duration |-> moveInfo.durationMs,
                  dws |-> moveInfo.damageWindowStartMs,
                  energy |-> Get(moveInfo, "energyDelta", 0) ]
        IN  Ok([ gm EXCEPT !.PvEMoves = Append(@, move) ])

\* engine.MoveEffect(activation_chance, self_attack_stage_delta, ...): the
\* engine's record of the five arguments.
MoveEffect(chance, attackerAttack, attackerDefense, targetAttack, targetDefense) ==
    << chance, attackerAttack, attackerDefense, targetAttack, targetDefense >>

\* Lines 201-219: a COMBAT_V<digits>_MOVE_<name> template.
IngestPvPMove(gm, template) ==
    IF ~ Has(template, "combatMove") THEN Raise(gm, "KeyError")
    ELSE
    LET tid == template.templateId
        moveInfo == template.combatMove
        movetype == IF EndsWith(tid, T_FAST) THEN "f" ELSE "c"
    IN  IF \/ ~ Has(moveInfo, "uniqueId")
           \/ ~ Has(moveInfo, "type")
           \/ ~ HasPoketype(rm_udrscrs(moveInfo.type, "t"))
           \/ (Has(moveInfo, "buffs") /\ ~ Has(moveInfo.buffs, "buffActivationChance"))
        THEN Raise(gm, "KeyError")
        ELSE
        LET move ==
                [ movetype |-> movetype,
                  name |-> rm_udrscrs(moveInfo.uniqueId, movetype),
                  poketype |-> InversedPoketypeList(rm_udrscrs(moveInfo.type, "t")),
                  power |-> Get(moveInfo, "power", 0),
                  duration |-> Get(moveInfo, "durationTurns", 0),
                  energy |-> Get(moveInfo, "energyDelta", 0) ]
            withEffect ==
                IF Has(moveInfo, "buffs")
                THEN DictSet(move, "effect",
                         MoveEffect(moveInfo.buffs.buffActivationChance,
                                    Get(moveInfo.buffs, "attackerAttackStatStageChange", 0),
                                    Get(moveInfo.buffs, "attackerDefenseStatStageChange", 0),
                                    Get(moveInfo.buffs, "targetAttackStatStageChange", 0),
                                    Get(moveInfo.buffs, "targetDefenseStatStageChange", 0)))
                ELSE move
        IN  Ok([ gm EXCEPT !.PvPMoves = Append(@, withEffect) ])

\* The half level taken to be the level before it.
HalfLevel_Last(cpm, last) == last

\* Line 226: the half-level entry ((cpm**2 + last**2) / 2) ** 0.5 between
\* two multipliers; on the stored squares it is their mean.  The source
\* multipliers of the model are even numbers, so the mean is an integer.
HalfLevel(cpm, last) == (cpm + last) \div 2

RECURSIVE AppendLevels(_, _)
\* Lines 223-227: for cpm in template["playerLevel"]["cpMultiplier"].
AppendLevels(multipliers, cpMultiplier) ==
    IF Len(cpMultiplier) = 0 THEN multipliers
    ELSE
    LET cpm == Head(cpMultiplier)
        withHalf ==
            IF Len(multipliers) > 0
            THEN Append(multipliers, HalfLevel(cpm, multipliers[Len(multipliers)]))
            ELSE multipliers
    IN  AppendLevels(Append(withHalf, cpm), Tail(cpMultiplier))

\* Lines 222-227: the PLAYER_LEVEL_SETTINGS template.
IngestLevels(gm, template) ==
    IF ~ Has(template, "playerLevel") \/ ~ Has(template.playerLevel, "cpMultiplier")
    THEN Raise(gm, "KeyError")
    ELSE Ok([ gm EXCEPT !.CPMultipliers = AppendLevels(@, template.playerLevel.cpMultiplier) ])

\* Lines 230-234: a POKEMON_TYPE_<name> template.  The row is emptied, then
\* filled in the order of PoketypeList; a scalar beyond the 18th raises
\* IndexError with the row already filled.
IngestType(gm, template) ==
    IF ~ Has(template, "typeEffective") \/ ~ Has(template.typeEffective, "attackScalar")
    THEN Raise(gm, "KeyError")
    ELSE
    LET pokemonType == rm_udrscrs(template.templateId, "t")
        attackScalar == template.typeEffective.attackScalar
        filled == 1 .. Min(Len(attackScalar), Len(PoketypeList))
        row == [ name \in { PoketypeList[idx] : idx \in filled } |->
                   attackScalar[CHOOSE idx \in filled : PoketypeList[idx] = name] ]
        after == [ gm EXCEPT !.TypeEffectiveness = DictSet(@, pokemonType, row) ]
    IN  IF Len(attackScalar) > Len(PoketypeList) THEN Raise(after, "IndexError") ELSE Ok(after)

\* Lines 237-238: BATTLE_SETTINGS replaces the PvE settings.
IngestBattleSettings(gm, template) ==
    IF ~ Has(template, "battleSettings") THEN Raise(gm, "KeyError")
    ELSE Ok([ gm EXCEPT !.PvEBattleSettings = template.battleSettings ])

\* Lines 241-243: COMBAT_SETTINGS is merged into the PvP settings.
IngestCombatSettings(gm, template) ==
    IF ~ Has(template, "combatSettings") THEN Raise(gm, "KeyError")
    ELSE Ok([ gm EXCEPT !.PvPBattleSettings = DictUpdate(@, template.combatSettings) ])

\* Lines 246-248: COMBAT_STAT_STAGE_SETTINGS is merged into the PvP settings.
IngestStatStageSettings(gm, template) ==
    IF ~ Has(template, "combatStatStageSettings") THEN Raise(gm, "KeyError")
    ELSE Ok([ gm EXCEPT !.PvPBattleSettings = DictUpdate(@, template.combatStatStageSettings) ])

\* Lines 251-258: a WEATHER_AFFINITY_<name> template.
IngestWeatherAffinity(gm, template) ==
    IF \/ ~ Has(template, "weatherAffinities")
       \/ ~ Has(template.weatherAffinities, "weatherCondition")
       \/ ~ Has(template.weatherAffinities, "pokemonType")
    THEN Raise(gm, "KeyError")
    ELSE
    LET condition == template.weatherAffinities.weatherCondition
        weatherName == IF condition = T_OVERCAST THEN T_CLOUDY ELSE condition
        pokemonType == template.weatherAffinities.pokemonType
        weather ==
            [ name |-> weatherName,
              boostedTypes |-> [ i \in DOMAIN pokemonType |-> rm_udrscrs(pokemonType[i], "t") ] ]
    IN  Ok([ gm EXCEPT !.WeatherSettings = Append(@, weather) ])

\* Lines 259-260: WEATHER_BONUS_SETTINGS sets one PvE setting.
IngestWeatherBonus(gm, template) ==
    IF \/ ~ Has(template, "weatherBonusSettings")
       \/ ~ Has(template.weatherBonusSettings, "attackBonusMultiplier")
    THEN Raise(gm, "KeyError")
    ELSE Ok([ gm EXCEPT !.PvEBattleSettings =
                  DictSet(@, "weatherAttackBonusMultiplier",
                          template.weatherBonusSettings.attackBonusMultiplier) ])

\* Lines 263-265: a FRIENDSHIP_LEVEL_<digits> template.
IngestFriendship(gm, template) ==
    IF \/ ~ Has(template, "friendshipMilestoneSettings")
       \/ ~ Has(template.friendshipMilestoneSettings, "attackBonusPercentage")
    THEN Raise(gm, "KeyError")
    ELSE
    LET multiplier == template.friendshipMilestoneSettings.attackBonusPercentage
    IN  Ok([ gm EXCEPT !.FriendAttackBonusMultipliers =
                 Append(@, [ name |-> template.templateId, multiplier |-> multiplier ]) ])

\* The dispatch with an exception for a template of no known shape.
Ingest_RaiseUnmatched(gm, template) ==
    LET tid == template.templateId
    IN  IF MatchVersioned(tid, T_V, T_POKEMON) THEN IngestPokemon(gm, template)
        ELSE IF MatchVersioned(tid, T_V, T_MOVE) THEN IngestPvEMove(gm, template)
        ELSE IF MatchVersioned(tid, T_COMBAT_V, T_MOVE) THEN IngestPvPMove(gm, template)
        ELSE IF tid = T_PLAYER_LEVEL_SETTINGS THEN IngestLevels(gm, template)
        ELSE IF MatchPrefix(tid, T_POKEMON_TYPE) THEN IngestType(gm, template)
        ELSE IF tid = T_BATTLE_SETTINGS THEN IngestBattleSettings(gm, template)
        ELSE IF tid = T_COMBAT_SETTINGS THEN IngestCombatSettings(gm, template)
        ELSE IF tid = T_COMBAT_STAT_STAGE_SETTINGS THEN IngestStatStageSettings(gm, template)
        ELSE IF MatchPrefix(tid, T_WEATHER_AFFINITY) THEN IngestWeatherAffinity(gm, template)
        ELSE IF tid = T_WEATHER_BONUS_SETTINGS THEN IngestWeatherBonus(gm, template)
        ELSE IF StartsWith(tid, T_FRIENDSHIP_LEVEL) /\ IsDigits(Drop(tid, Len(T_FRIENDSHIP_LEVEL)))
             THEN IngestFriendship(gm, template)
        ELSE Raise(gm, "KeyError")

\* Lines 163-265: the if/elif chain on the template identifier, in the
\* order of the code; an identifier that matches nothing is passed over.
Ingest(gm, template) ==
    LET tid == template.templateId
    IN  IF MatchVersioned(tid, T_V, T_POKEMON) THEN IngestPokemon(gm, template)
        ELSE IF MatchVersioned(tid, T_V, T_MOVE) THEN IngestPvEMove(gm, template)
        ELSE IF MatchVersioned(tid, T_COMBAT_V, T_MOVE) THEN IngestPvPMove(gm, template)
        ELSE IF tid = T_PLAYER_LEVEL_SETTINGS THEN IngestLevels(gm, template)
        ELSE IF MatchPrefix(tid, T_POKEMON_TYPE) THEN IngestType(gm, template)
        ELSE IF tid = T_BATTLE_SETTINGS THEN IngestBattleSettings(gm, template)
        ELSE IF tid = T_COMBAT_SETTINGS THEN IngestCombatSettings(gm, template)
        ELSE IF tid = T_COMBAT_STAT_STAGE_SETTINGS THEN IngestStatStageSettings(gm, template)
        ELSE IF MatchPrefix(tid, T_WEATHER_AFFINITY) THEN IngestWeatherAffinity(gm, template)
        ELSE IF tid = T_WEATHER_BONUS_SETTINGS THEN IngestWeatherBonus(gm, template)
        ELSE IF StartsWith(tid, T_FRIENDSHIP_LEVEL) /\ IsDigits(Drop(tid, Len(T_FRIENDSHIP_LEVEL)))
             THEN IngestFriendship(gm, template)
        ELSE Ok(gm)

RECURSIVE IngestAll(_, _)
\* Line 162, after one template: an exception ends the loop and leaves the
\* store as the templates before it made it.
IngestRest(first, rest) ==
    IF first.raised # "" THEN first ELSE IngestAll(first.gm, rest)

\* Line 162: for template in gmdata["itemTemplates"].
IngestAll(gm, itemTemplates) ==
    IF Len(itemTemplates) = 0 THEN Ok(gm)
    ELSE IngestRest(Ingest(gm, Head(itemTemplates)), Tail(itemTemplates))

RECURSIVE InsertByMultiplier(_, _)
\* The place of x in a list sorted by multiplier: after every entry whose
\* multiplier is not larger (list.sort is stable).
InsertByMultiplier(sorted, x) ==
    IF Len(sorted) = 0 THEN << x >>
    ELSE IF sorted[Len(sorted)].multiplier <= x.multiplier THEN Append(sorted, x)
    ELSE Append(InsertByMultiplier(SubSeq(sorted, 1, Len(sorted) - 1), x), sorted[Len(sorted)])

RECURSIVE SortByMultiplier(_)
\* Line 267: list.sort(key=lambda x: x["multiplier"])
SortByMultiplier(list) ==
    IF Len(list) = 0 THEN << >>
    ELSE InsertByMultiplier(SortByMultiplier(SubSeq(list, 1, Len(list) - 1)), list[Len(list)])

\* Line 267, which runs only when the loop ended without an exception.
SortFriends(looped) ==
    IF looped.raised # "" THEN looped
    ELSE Ok([ looped.gm EXCEPT !.FriendAttackBonusMultipliers = SortByMultiplier(@) ])

\* feed without the sort of line 267.
feed_NoSort(gm, itemTemplates) == IngestAll(gm, itemTemplates)

\* Lines 162-267: feed of the parsed file.
feed(gm, itemTemplates) == SortFriends(IngestAll(gm, itemTemplates))

---------------------------------------------------------------------------
(* IPokemon.infer_level_and_IVs                                            *)

\* The base-stat triples (bAtk, bDef, bStm) of the model's species and
\* requests.
BaseStats == { << 50, 40, 60 >>, << 20, 30, 25 >>, << 10, 10, 10 >> }

\* The squares of the source multipliers are 2 * 1 .. 2 * MaxCPMSquare, in
\* units of 1 / CPMDen; a half-level entry is the mean of two of them.
MaxCPMSquare == 3

SourceCPMs == { 2 * n : n \in 1 .. MaxCPMSquare }

StoredCPMs == 1 .. 2 * MaxCPMSquare

NumIVs == MaxIV + 1

NumCombos == NumIVs * NumIVs * NumIVs

\* The k-th (atkiv, defiv, stmiv) of the three nested range(16) loops of
\* lines 477-479, k = 1 .. 4096: stmiv runs fastest.
ComboAt(k) ==
    << (k - 1) \div (NumIVs * NumIVs), ((k - 1) \div NumIVs) % NumIVs, (k - 1) % NumIVs >>

RECURSIVE LevelRow(_, _, _, _)
\* Line 480 for the combinations lo .. hi of one multiplier, in loop order.
LevelRow(b, cpm, lo, hi) ==
    IF lo = hi
    THEN << calc_cp(b[1], b[2], b[3], cpm, ComboAt(lo)[1], ComboAt(lo)[2], ComboAt(lo)[3]) >>
    ELSE LevelRow(b, cpm, lo, (lo + hi) \div 2) \o LevelRow(b, cpm, (lo + hi) \div 2 + 1, hi)

\* calc_cp tabulated over the model's base stats and multipliers: the CPs of
\* one level in loop order, and for each CP of the level the first k that
\* has it.
LevelRows == [ b \in BaseStats |-> [ cpm \in StoredCPMs |-> LevelRow(b, cpm, 1, NumCombos) ] ]

FirstOfCP ==
    [ b \in BaseStats |-> [ cpm \in StoredCPMs |->
        [ cp \in Range(LevelRows[b][cpm]) |->
            SetMin({ k \in 1 .. NumCombos : LevelRows[b][cpm][k] = cp }) ] ] ]

RECURSIVE AdvanceMin(_, _, _, _, _, _, _)
\* Lines 467-470: min_cpm_i after the first while loop.
AdvanceMin(CPMs, bAtk, bDef, bStm, target_cp, min_cpm_i, max_cpm_i) ==
    IF min_cpm_i <= max_cpm_i
    THEN IF calc_cp(bAtk, bDef, bStm, CPMs[min_cpm_i + 1], MaxIV, MaxIV, MaxIV) > target_cp
         THEN min_cpm_i
         ELSE AdvanceMin(CPMs, bAtk, bDef, bStm, target_cp, min_cpm_i + 1, max_cpm_i)
    ELSE min_cpm_i

RECURSIVE RetreatMax(_, _, _, _, _, _)
\* Lines 471-474: max_cpm_i after the second while loop.
RetreatMax(CPMs, bAtk, bDef, bStm, target_cp, max_cpm_i) ==
    IF max_cpm_i > 0
    THEN IF calc_cp(bAtk, bDef, bStm, CPMs[max_cpm_i + 1], 0, 0, 0) < target_cp
         THEN max_cpm_i
         ELSE RetreatMax(CPMs, bAtk, bDef, bStm, target_cp, max_cpm_i - 1)
    ELSE max_cpm_i

RECURSIVE Enumerate(_, _, _, _, _)
\* The enumeration without the test cp < target_cp of line 483.
Enumerate_NoUpperBound(levels, b, target_cp, closest, closest_cp) ==
    IF Len(levels) = 0 THEN closest
    ELSE
    LET cpm == Head(levels)
        first == FirstOfCP[b][cpm]
        above == { cp \in DOMAIN first : closest_cp < cp }
    IN  IF target_cp \in DOMAIN first
        THEN << cpm >> \o ComboAt(first[target_cp])
        ELSE IF above = {}
        THEN Enumerate(Tail(levels), b, target_cp, closest, closest_cp)
        ELSE Enumerate(Tail(levels), b, target_cp,
                       << cpm >> \o ComboAt(first[SetMax(above)]), SetMax(above))

\* Lines 476-486 over the multipliers of the slice.  Within one multiplier
\* the loops return at the first combination whose cp is the target; with no
\* such combination they leave closest at the first combination of the
\* largest cp that is below the target and above closest_cp (line 483
\* replaces closest only by a strictly larger cp).
Enumerate(levels, b, target_cp, closest, closest_cp) ==
    IF Len(levels) = 0 THEN closest
    ELSE
    LET cpm == Head(levels)
        first == FirstOfCP[b][cpm]
        below == { cp \in DOMAIN first : closest_cp < cp /\ cp < target_cp }
    IN  IF target_cp \in DOMAIN first
        THEN << cpm >> \o ComboAt(first[target_cp])
        ELSE IF below = {}
        THEN Enumerate(Tail(levels), b, target_cp, closest, closest_cp)
        ELSE Enumerate(Tail(levels), b, target_cp,
                       << cpm >> \o ComboAt(first[SetMax(below)]), SetMax(below))

\* The inference with closest starting at the first level at IVs (0, 0, 0)
\* instead of None.
infer_level_and_IVs_Default(CPMs, bAtk, bDef, bStm, target_cp) ==
    LET min_cpm_i == AdvanceMin(CPMs, bAtk, bDef, bStm, target_cp, 0, Len(CPMs) - 1)
        max_cpm_i == RetreatMax(CPMs, bAtk, bDef, bStm, target_cp, Len(CPMs) - 1)
    IN  Enumerate(Slice(CPMs, min_cpm_i, max_cpm_i + 1), << bAtk, bDef, bStm >>,
                  target_cp, IF Len(CPMs) = 0 THEN None ELSE << CPMs[1], 0, 0, 0 >>, 0)

\* Lines 461-486, with CPMultipliers = IPokemon._binded_gm.CPMultipliers.
\* The result is (cpm, atkiv, defiv, stmiv), or None.
infer_level_and_IVs(CPMs, bAtk, bDef, bStm, target_cp) ==
    LET min_cpm_i == AdvanceMin(CPMs, bAtk, bDef, bStm, target_cp, 0, Len(CPMs) - 1)
        max_cpm_i == RetreatMax(CPMs, bAtk, bDef, bStm, target_cp, Len(CPMs) - 1)
    IN  Enumerate(Slice(CPMs, min_cpm_i, max_cpm_i + 1), << bAtk, bDef, bStm >>,
                  target_cp, None, 0)

---------------------------------------------------------------------------
(* GameMaster._search and the search methods                               *)
(*                                                                         *)
(* A function that can raise returns [ret, raised]: its value, and the     *)
(* exception ("" when it returned).                                        *)

Return(value) == [ ret |-> value, raised |-> "" ]

Throw(exception) == [ ret |-> None, raised |-> exception ]

\* A criteria is a str, [str |-> name], or a callback, [fn |-> callback].
\* The callbacks of the model's callers, as predicates on an entity.
Callback(fn, entity) ==
    CASE fn = "lambda x: True" -> TRUE
      [] fn = "lambda x: False" -> FALSE
      [] fn = "lambda x: x['dex'] > 1" -> entity.dex > 1
      [] fn = "lambda x: x['name'] == 'ab'" -> entity.name = << "a", "b" >>

\* cbfn without .strip().lower() on the name of the entity.
cbfn_RawName(criteria, entity) ==
    IF Has(criteria, "str")
    THEN entity.name = Lower(Strip(criteria.str))
    ELSE Callback(criteria.fn, entity)

\* Lines 321-324: cbfn(entity).
cbfn(criteria, entity) ==
    IF Has(criteria, "str")
    THEN Lower(Strip(entity.name)) = Lower(Strip(criteria.str))
    ELSE Callback(criteria.fn, entity)

RECURSIVE SearchLoop(_, _, _, _)
\* Lines 326-335: the loop over the entities not yet visited, and what
\* follows it.
SearchLoop(rest, criteria, all, results) ==
    IF Len(rest) = 0
    THEN IF all THEN Return(results) ELSE Throw("Exception")
    ELSE IF cbfn(criteria, Head(rest))
    THEN IF all
         THEN SearchLoop(Tail(rest), criteria, all, Append(results, Head(rest)))
         ELSE Return(Head(rest))
    ELSE SearchLoop(Tail(rest), criteria, all, results)

\* Lines 320-335.
_search(universe, criteria, all) == SearchLoop(universe, criteria, all, << >>)

\* Lines 338-346.
search_pokemon(gm, criteria, all) == _search(gm.Pokemon, criteria, all)

\* Lines 349-357.
search_move_pve(gm, criteria, all) == _search(gm.PvEMoves, criteria, all)

\* Lines 360-368.
search_move_pvp(gm, criteria, all) == _search(gm.PvPMoves, criteria, all)

\* Lines 371-377.  A level is a multiple of 1/2 and is given as twice its
\* value, so that idx = round(2 * float(level) - 2) = level2 - 2.  A
\* negative idx counts from the end of the list, as Python indexing does.
search_cpm(gm, level2) ==
    LET idx == level2 - 2
        n == Len(gm.CPMultipliers)
    IN  IF 0 <= idx /\ idx < n THEN Return(gm.CPMultipliers[idx + 1])
        ELSE IF idx < 0 /\ - idx <= n THEN Return(gm.CPMultipliers[n + idx + 1])
        ELSE Throw("IndexError")

alter_names ==
    << <<"n","o","n","e">>, <<"g","o","o","d">>, <<"g","r","e","a","t">>,
       <<"u","l","t","r","a">>, <<"b","e","s","t">> >>

RECURSIVE FriendLoop(_, _, _)
\* Lines 400-405: the loop from position i (0-based) on.
FriendLoop(settings, friendship, i) ==
    IF i >= Len(settings) THEN Throw("Exception")
    ELSE IF friendship = IntToStr(i) THEN Return(settings[i + 1].multiplier)
    ELSE IF i >= Len(alter_names) THEN Throw("IndexError")
    ELSE IF friendship = alter_names[i + 1] THEN Return(settings[i + 1].multiplier)
    ELSE FriendLoop(settings, friendship, i + 1)

\* Lines 392-405.  The argument is a str, [str |-> chars], or an int,
\* [int |-> n]; line 398 makes a str of it.
search_friend(gm, friendship) ==
    LET asStr == IF Has(friendship, "str") THEN friendship.str ELSE IntToStr(friendship.int)
    IN  FriendLoop(gm.FriendAttackBonusMultipliers, Lower(Strip(asStr)), 0)

\* Lines 414-421.  cpm is the square of the tier's multiplier in units of
\* 1 / 10000, to the nearest unit.
RaidTierSettings ==
    << [ name |-> << "1" >>, cpm |-> 3600, maxHP |-> 600,   timelimit |-> 180000 ],
       [ name |-> << "2" >>, cpm |-> 4489, maxHP |-> 1800,  timelimit |-> 180000 ],
       [ name |-> << "3" >>, cpm |-> 5329, maxHP |-> 3600,  timelimit |-> 180000 ],
       [ name |-> << "4" >>, cpm |-> 6241, maxHP |-> 9000,  timelimit |-> 180000 ],
       [ name |-> << "5" >>, cpm |-> 6241, maxHP |-> 15000, timelimit |-> 300000 ],
       [ name |-> << "6" >>, cpm |-> 6241, maxHP |-> 18750, timelimit |-> 3000000 ] >>

\* Lines 408-427, for a tier already made a str.
search_raid_tier(tier) ==
    LET found == { i \in DOMAIN RaidTierSettings : RaidTierSettings[i].name = tier }
    IN  IF found = {} THEN Throw("Exception") ELSE Return(RaidTierSettings[SetMin(found)])

---------------------------------------------------------------------------
(* GameMaster.apply                                                        *)
(*                                                                         *)
(* The engine is the log of what apply passed to it: the named parameters  *)
(* (a dict, the order of set_parameter calls being that of the settings    *)
(* dicts) and, in order, the other calls.                                  *)

NoEngineCalls == [ parameters |-> EmptyDict, calls |-> << >> ]

\* Lines 276-290: the engine parameter of a PvE setting name.
PvEParameter(name) ==
    CASE name = "sameTypeAttackBonusMultiplier" -> "same_type_attack_bonus_multiplier"
      [] name = "maximumEnergy" -> "max_energy"
      [] name = "energyDeltaPerHealthLost" -> "energy_delta_per_health_lost"
      [] name = "dodgeDurationMs" -> "dodge_duration"
      [] name = "swapDurationMs" -> "swap_duration"
      [] name = "dodgeDamageReductionPercent" -> "dodge_damage_reduction_percent"
      [] name = "weatherAttackBonusMultiplier" -> "weather_attack_bonus_multiplier"
      [] OTHER -> ""

\* Lines 293-297: the engine parameter of a PvP setting name.
PvPParameter(name) ==
    CASE name = "fastAttackBonusMultiplier" -> "pvp_fast_attack_bonus_multiplier"
      [] name = "chargeAttackBonusMultiplier" -> "pvp_charged_attack_bonus_multiplier"
      [] OTHER -> ""

\* Lines 276-297: the set_parameter calls, PvE settings first.
SetParameters(gm) ==
    LET pve == { n \in DOMAIN gm.PvEBattleSettings : PvEParameter(n) # "" }
        pvp == { n \in DOMAIN gm.PvPBattleSettings : PvPParameter(n) # "" }
    IN  [ p \in { PvEParameter(n) : n \in pve } \cup { PvPParameter(n) : n \in pvp } |->
            IF \E n \in pvp : PvPParameter(n) = p
            THEN gm.PvPBattleSettings[CHOOSE n \in pvp : PvPParameter(n) = p]
            ELSE gm.PvEBattleSettings[CHOOSE n \in pve : PvEParameter(n) = p] ]

NumTypes == Len(PoketypeList)

\* Lines 303-305: the k-th (t1, t2) of the two nested loops, k = 1 .. 324.
TypePairAt(k) == << (k - 1) \div NumTypes, (k - 1) % NumTypes >>

HasEffectiveness(gm, k) ==
    LET t1_name == PoketypeList[TypePairAt(k)[1] + 1]
        t2_name == PoketypeList[TypePairAt(k)[2] + 1]
    IN  Has(gm.TypeEffectiveness, t1_name) /\ Has(gm.TypeEffectiveness[t1_name], t2_name)

\* Line 305 with the multiplier of t2 against t1.
SetEffectivenessAt_Transposed(gm, k) ==
    << "set_effectiveness", TypePairAt(k)[1], TypePairAt(k)[2],
       gm.TypeEffectiveness[PoketypeList[TypePairAt(k)[2] + 1]][PoketypeList[TypePairAt(k)[1] + 1]] >>

\* Line 305 for the k-th pair.
SetEffectivenessAt(gm, k) ==
    << "set_effectiveness", TypePairAt(k)[1], TypePairAt(k)[2],
       gm.TypeEffectiveness[PoketypeList[TypePairAt(k)[1] + 1]][PoketypeList[TypePairAt(k)[2] + 1]] >>

\* Lines 308-310: the set_type_boosted_weather calls, in order; a boosted
\* type that is no key of InversedPoketypeList raises KeyError.
RECURSIVE WeatherCalls(_, _, _, _)
WeatherCalls(gm, i, j, calls) ==
    IF i > Len(gm.WeatherSettings) THEN [ calls |-> calls, raised |-> "" ]
    ELSE IF j > Len(gm.WeatherSettings[i].boostedTypes) THEN WeatherCalls(gm, i + 1, 1, calls)
    ELSE
    LET t_name == gm.WeatherSettings[i].boostedTypes[j]
    IN  IF ~ HasPoketype(t_name) THEN [ calls |-> calls, raised |-> "KeyError" ]
        ELSE WeatherCalls(gm, i, j + 1,
                 Append(calls, << "set_type_boosted_weather", InversedPoketypeList(t_name), i - 1 >>))

\* Lines 270-315.  The result is [engine, raised, binds]: what the engine
\* received, the exception, and whether lines 314-315 were reached.
apply(gm) ==
    LET parameters == SetParameters(gm)
    IN  IF ~ Has(gm.PvPBattleSettings, "attackBuffMultiplier")
        THEN [ engine |-> [ parameters |-> parameters, calls |-> << >> ],
               raised |-> "KeyError", binds |-> FALSE ]
        ELSE
        LET stage == << "set_stage_multipliers", gm.PvPBattleSettings["attackBuffMultiplier"],
                        Get(gm.PvPBattleSettings, "minimumStatStage", None) >>
            missing == { k \in 1 .. NumTypes * NumTypes : ~ HasEffectiveness(gm, k) }
            written == IF missing = {} THEN NumTypes * NumTypes ELSE SetMin(missing) - 1
            typeCalls == << stage, << "set_num_types", NumTypes >> >>
                         \o [ k \in 1 .. written |-> SetEffectivenessAt(gm, k) ]
        IN  IF missing # {}
            THEN [ engine |-> [ parameters |-> parameters, calls |-> typeCalls ],
                   raised |-> "KeyError", binds |-> FALSE ]
            ELSE
            LET weather == WeatherCalls(gm, 1, 1, typeCalls)
            IN  [ engine |-> [ parameters |-> parameters, calls |-> weather.calls ],
                  raised |-> weather.raised, binds |-> weather.raised = "" ]

---------------------------------------------------------------------------
(* IMove.__init__ and IPokemon.__init__, for a structured request          *)

ROLE_PVE_ATTACKER == << "a", "e" >>

ROLE_PVP_ATTACKER == << "a", "p" >>

ROLE_GYM_DEFENDER == << "g", "d" >>

ROLE_RAID_BOSS == << "r", "b" >>

\* The level of a request without one (line 541), as twice its value.
DefaultLevel2 == 80

\* The store a class is bound to: the default GameMaster() until
\* bind_game_master has bound this one (lines 445-449 and 578-582).
BoundStore(bound) == IF bound THEN Store ELSE EmptyStore

\* Lines 585-608 for a move given by name: the fields of the move that are
\* int or MoveEffect, which the engine's Move is built from.
IMove(gm, name, pvp) ==
    LET found == IF pvp THEN search_move_pvp(gm, [ str |-> name ], FALSE)
                 ELSE search_move_pve(gm, [ str |-> name ], FALSE)
    IN  IF found.raised # "" THEN found
        ELSE Return([ k \in DOMAIN found.ret \ { "name", "movetype" } |-> found.ret[k] ])

RECURSIVE IMoves(_, _, _)
\* Line 562: [IMove(cmove, pvp=pvp) for cmove in raw_cmoves]
IMoves(gm, names, pvp) ==
    IF Len(names) = 0 THEN Return(<< >>)
    ELSE
    LET first == IMove(gm, Head(names), pvp)
        others == IMoves(gm, Tail(names), pvp)
    IN  IF first.raised # "" THEN first
        ELSE IF others.raised # "" THEN others
        ELSE Return(<< first.ret >> \o others.ret)

\* max_hp left as it is for every role.
GymHP_Single(role, max_hp) == max_hp

\* Lines 548-549: if role == ROLE_GYM_DEFENDER: targets["max_hp"] *= 2
GymHP(role, max_hp) == IF role = ROLE_GYM_DEFENDER THEN max_hp * 2 ELSE max_hp

\* Lines 529-549: attack, defense, max_hp and tier.  attack and defense are
\* products stat * cpm and are kept as their two factors.
DeriveStats(gm, sdata, p_dict) ==
    LET bAtk == sdata.baseAttack
        bDef == sdata.baseDefense
        bStm == sdata.baseStamina
        role == Get(p_dict, "role", ROLE_PVE_ATTACKER)
    IN  IF role = ROLE_RAID_BOSS \/ Has(p_dict, "tier")
        THEN IF ~ Has(p_dict, "tier") THEN Throw("KeyError")
             ELSE
             LET tier == IntToStr(p_dict.tier)
                 tier_setting == search_raid_tier(tier)
             IN  IF tier_setting.raised # "" THEN tier_setting
                 ELSE Return([ attack |-> << bAtk + 15, tier_setting.ret.cpm >>,
                               defense |-> << bDef + 15, tier_setting.ret.cpm >>,
                               max_hp |-> tier_setting.ret.maxHP,
                               tier |-> tier ])
        ELSE
        LET inferred == infer_level_and_IVs(gm.CPMultipliers, bAtk, bDef, bStm, p_dict.cp)
            level == search_cpm(gm, Get(p_dict, "level", DefaultLevel2))
            chosen ==
                IF Has(p_dict, "cp")
                THEN IF inferred = None THEN Throw("TypeError") ELSE Return(inferred)
                ELSE IF level.raised # "" THEN level
                ELSE Return(<< level.ret, Get(p_dict, "atkiv", 15),
                               Get(p_dict, "defiv", 15), Get(p_dict, "stmiv", 15) >>)
        IN  IF chosen.raised # "" THEN chosen
            ELSE
            LET cpm == chosen.ret[1]
                atkiv == chosen.ret[2]
                defiv == chosen.ret[3]
                stmiv == chosen.ret[4]
                \* int((bStm + stmiv) * cpm), with cpm = sqrt(cpm2 / CPMDen)
                max_hp == isqrt(((bStm + stmiv) * (bStm + stmiv) * cpm) \div CPMDen)
            IN  Return([ attack |-> << bAtk + atkiv, cpm >>,
                         defense |-> << bDef + defiv, cpm >>,
                         max_hp |-> GymHP(role, max_hp),
                         tier |-> None ])

\* Lines 508-568 for a request p_dict (a dict, or the keyword arguments):
\* the attributes of the object built, or the exception.
IPokemon(gmPokemon, gmMove, p_dict) ==
    IF ~ Has(p_dict, "name") THEN Throw("KeyError")
    ELSE
    LET sdata == search_pokemon(gmPokemon, [ str |-> p_dict.name ], FALSE)
    IN  IF sdata.raised # "" THEN sdata
        ELSE
        LET stats == DeriveStats(gmPokemon, sdata.ret, p_dict)
            role == Get(p_dict, "role", ROLE_PVE_ATTACKER)
            pvp == role = ROLE_PVP_ATTACKER \/ Get(p_dict, "pvp", FALSE)
            fmove == IF Has(p_dict, "fmove") THEN IMove(gmMove, p_dict.fmove, pvp)
                     ELSE Return(None)
            raw_cmoves == IF Has(p_dict, "cmove") THEN << p_dict.cmove >>
                          ELSE Get(p_dict, "cmoves", << >>)
            cmoves == IMoves(gmMove, raw_cmoves, pvp)
        IN  IF stats.raised # "" THEN stats
            ELSE IF fmove.raised # "" THEN fmove
            ELSE IF cmoves.raised # "" THEN cmoves
            ELSE
            LET built ==
                    [ poketype1 |-> sdata.ret.poketype1,
                      poketype2 |-> sdata.ret.poketype2,
                      attack |-> stats.ret.attack,
                      defense |-> stats.ret.defense,
                      max_hp |-> stats.ret.max_hp,
                      tier |-> stats.ret.tier,
                      fmove |-> fmove.ret,
                      cmoves |-> cmoves.ret,
                      immortal |-> Get(p_dict, "immortal", FALSE) ]
            IN  Return(IF Has(p_dict, "pvp_strategy")
                       THEN DictSet(built, "pvp_strategy", p_dict.pvp_strategy)
                       ELSE built)

---------------------------------------------------------------------------
(* The state machine: one store, the two class bindings, the engine, and a *)
(* caller that makes one call at a time.                                   *)

NoCall == [ op |-> "none", args |-> << >>, ret |-> << >>, raised |-> "" ]

Called(op, args, result) ==
    call' = [ op |-> op, args |-> args, ret |-> result.ret, raised |-> result.raised ]

\* GameMaster(), IPokemon._binded_gm = GameMaster(), IMove._binded_gm =
\* GameMaster(): an empty store that no class is bound to yet.
Init ==
    /\ Pokemon = << >>
    /\ PvEMoves = << >>
    /\ PvPMoves = << >>
    /\ CPMultipliers = << >>
    /\ WeatherSettings = << >>
    /\ FriendAttackBonusMultipliers = << >>
    /\ TypeEffectiveness = EmptyDict
    /\ PvEBattleSettings = EmptyDict
    /\ PvPBattleSettings = EmptyDict
    /\ binded_gm = [ IPokemon |-> FALSE, IMove |-> FALSE ]
    /\ engine = NoEngineCalls
    /\ call = NoCall

\* The caller takes the outcome of its call and is ready for the next.
Continue ==
    /\ call.op # "none"
    /\ call' = NoCall
    /\ UNCHANGED << store_vars, binded_gm, engine >>

\* Lines 138-151: gm.clear()
Clear ==
    /\ call.op = "none"
    /\ StoreBecomes(EmptyStore)
    /\ Called("clear", << >>, Return(None))
    /\ UNCHANGED << binded_gm, engine >>

\* The longest list the model lets a feed make.
MaxTableLen == 5

FitsBounds(gm) ==
    /\ Len(gm.Pokemon) <= MaxTableLen
    /\ Len(gm.PvEMoves) <= MaxTableLen
    /\ Len(gm.PvPMoves) <= MaxTableLen
    /\ Len(gm.CPMultipliers) <= MaxTableLen
    /\ Len(gm.WeatherSettings) <= MaxTableLen
    /\ Len(gm.FriendAttackBonusMultipliers) <= MaxTableLen

\* The caller of feed sees the store it left and the exception, if any.
Fed(fed, itemTemplates) ==
    /\ FitsBounds(fed.gm)
    /\ StoreBecomes(fed.gm)
    /\ Called("feed", itemTemplates, [ ret |-> None, raised |-> fed.raised ])

\* Lines 154-267: gm.feed(file), for a file whose JSON is
\* {"itemTemplates": itemTemplates}.
Feed(itemTemplates) ==
    /\ call.op = "none"
    /\ Fed(feed(Store, itemTemplates), itemTemplates)
    /\ UNCHANGED << binded_gm, engine >>

\* Lines 270-315: gm.apply()
Apply ==
    /\ call.op = "none"
    /\ LET applied == apply(Store)
       IN  /\ engine' = applied.engine
           /\ binded_gm' = IF applied.binds THEN [ IPokemon |-> TRUE, IMove |-> TRUE ]
                           ELSE binded_gm
           /\ Called("apply", << >>, [ ret |-> None, raised |-> applied.raised ])
    /\ UNCHANGED store_vars

\* Lines 447-449: IPokemon.bind_game_master(gm)
BindIPokemon ==
    /\ call.op = "none"
    /\ ~ binded_gm.IPokemon
    /\ binded_gm' = [ binded_gm EXCEPT !.IPokemon = TRUE ]
    /\ Called("IPokemon.bind_game_master", << >>, Return(None))
    /\ UNCHANGED << store_vars, engine >>

\* Lines 580-582: IMove.bind_game_master(gm)
BindIMove ==
    /\ call.op = "none"
    /\ ~ binded_gm.IMove
    /\ binded_gm' = [ binded_gm EXCEPT !.IMove = TRUE ]
    /\ Called("IMove.bind_game_master", << >>, Return(None))
    /\ UNCHANGED << store_vars, engine >>

\* Lines 452-457: IPokemon.calc_cp(bAtk, bDef, bStm, cpm, atkiv, defiv, stmiv)
CalcCP(b, cpm, atkiv, defiv, stmiv) ==
    /\ call.op = "none"
    /\ Called("calc_cp", << b[1], b[2], b[3], cpm, atkiv, defiv, stmiv >>,
              Return(calc_cp(b[1], b[2], b[3], cpm, atkiv, defiv, stmiv)))
    /\ UNCHANGED << store_vars, binded_gm, engine >>

\* Lines 460-486: IPokemon.infer_level_and_IVs(bAtk, bDef, bStm, target_cp)
Infer(b, target_cp) ==
    /\ call.op = "none"
    /\ Called("infer_level_and_IVs", << b[1], b[2], b[3], target_cp >>,
              Return(infer_level_and_IVs(BoundStore(binded_gm.IPokemon).CPMultipliers,
                                         b[1], b[2], b[3], target_cp)))
    /\ UNCHANGED << store_vars, binded_gm, engine >>

\* Lines 319-335: GameMaster._search(_universe, criteria, _all)
Search(universe, criteria, all) ==
    /\ call.op = "none"
    /\ Called("_search", << universe, criteria, all >>, _search(universe, criteria, all))
    /\ UNCHANGED << store_vars, binded_gm, engine >>

\* Lines 338-346: gm.search_pokemon(criteria, _all)
SearchPokemon(criteria, all) ==
    /\ call.op = "none"
    /\ Called("search_pokemon", << criteria, all >>, search_pokemon(Store, criteria, all))
    /\ UNCHANGED << store_vars, binded_gm, engine >>

\* Lines 371-377: gm.search_cpm(level)
SearchCPM(level2) ==
    /\ call.op = "none"
    /\ Called("search_cpm", << level2 >>, search_cpm(Store, level2))
    /\ UNCHANGED << store_vars, binded_gm, engine >>

\* Lines 392-405: gm.search_friend(friendship)
SearchFriend(friendship) ==
    /\ call.op = "none"
    /\ Called("search_friend", << friendship >>, search_friend(Store, friendship))
    /\ UNCHANGED << store_vars, binded_gm, engine >>

\* Lines 490-568: IPokemon(p_dict)
NewIPokemon(p_dict) ==
    /\ call.op = "none"
    /\ Called("IPokemon", << p_dict >>,
              IPokemon(BoundStore(binded_gm.IPokemon), BoundStore(binded_gm.IMove), p_dict))
    /\ UNCHANGED << store_vars, binded_gm, engine >>

---------------------------------------------------------------------------
(* calc_cp as a function of its arguments                                  *)

\* No call is waiting for its caller to continue.
Idle == call.op = "none"

CalcBaseStats == BaseStats \cup { << 0, 0, 0 >> }

NextCalc ==
    \/ /\ Idle
       /\ \E b \in CalcBaseStats, cpm \in StoredCPMs, atkiv \in IVs, defiv \in IVs, stmiv \in IVs :
              CalcCP(b, cpm, atkiv, defiv, stmiv)
    \/ Continue

SpecCalc == Init /\ [][NextCalc]_vars

\* C5: calc_cp does not decrease when one IV is increased with the other
\* arguments fixed, nor when the multiplier is increased with the IVs fixed,
\* and at IVs (15, 15, 15) it is at least what it is at (0, 0, 0).
\* Stated for every call on the step to the next IV and to the next
\* multiplier; the calls cover every IV triple.
CalcCPMonotone ==
    call.op = "calc_cp" =>
        LET a == call.args
        IN  /\ a[5] < MaxIV => calc_cp(a[1], a[2], a[3], a[4], a[5] + 1, a[6], a[7]) >= call.ret
            /\ a[6] < MaxIV => calc_cp(a[1], a[2], a[3], a[4], a[5], a[6] + 1, a[7]) >= call.ret
            /\ a[7] < MaxIV => calc_cp(a[1], a[2], a[3], a[4], a[5], a[6], a[7] + 1) >= call.ret
            /\ calc_cp(a[1], a[2], a[3], a[4] + 1, a[5], a[6], a[7]) >= call.ret
            /\ (a[5] = 0 /\ a[6] = 0 /\ a[7] = 0) =>
                   calc_cp(a[1], a[2], a[3], a[4], MaxIV, MaxIV, MaxIV) >= call.ret

\* A call above the floor whose CP grows with the next attack IV and with
\* the next multiplier.
CalcCPMonotoneWitness ==
    /\ call.op = "calc_cp"
    /\ call.ret > MinCP
    /\ call.args[5] < MaxIV
    /\ calc_cp(call.args[1], call.args[2], call.args[3], call.args[4],
               call.args[5] + 1, call.args[6], call.args[7]) > call.ret
    /\ calc_cp(call.args[1], call.args[2], call.args[3], call.args[4] + 1,
               call.args[5], call.args[6], call.args[7]) > call.ret

---------------------------------------------------------------------------
(* infer_level_and_IVs on the tables that feed makes                       *)

\* The most multipliers in one PLAYER_LEVEL_SETTINGS template.
MaxLevels == 3

\* The largest target CP of a request.
MaxTargetCP == 55

TargetCPs == 0 .. MaxTargetCP

\* The cpMultiplier lists of the model's files: strictly increasing.
LevelLists ==
    { l \in UNION { [ 1 .. n -> SourceCPMs ] : n \in 1 .. MaxLevels } :
        \A i \in DOMAIN l : \A j \in DOMAIN l : i < j => l[i] < l[j] }

LevelTemplate(l) ==
    [ templateId |-> T_PLAYER_LEVEL_SETTINGS, playerLevel |-> [ cpMultiplier |-> l ] ]

LevelFiles == { << LevelTemplate(l) >> : l \in LevelLists }

NextInfer ==
    \/ Clear
    \/ \E file \in LevelFiles : Feed(file)
    \/ BindIPokemon
    \/ /\ Idle
       /\ \E b \in BaseStats, target_cp \in TargetCPs : Infer(b, target_cp)
    \/ Continue

SpecInfer == Init /\ [][NextInfer]_vars

InferCalled == call.op = "infer_level_and_IVs"

\* The table the call read, and its arguments.
InferTable == BoundStore(binded_gm.IPokemon).CPMultipliers

InferBase == << call.args[1], call.args[2], call.args[3] >>

InferTarget == call.args[4]

\* calc_cp of the tuple the call returned.
InferredCP ==
    calc_cp(call.args[1], call.args[2], call.args[3],
            call.ret[1], call.ret[2], call.ret[3], call.ret[4])

\* The CPs of all (table index, IV triple) combinations.
AchievableCPs ==
    UNION { DOMAIN FirstOfCP[InferBase][InferTable[i]] : i \in DOMAIN InferTable }

BelowTarget == { cp \in AchievableCPs : cp < InferTarget }

\* C1: if some (table index, IV triple) has the target CP, the call returns
\* a tuple whose CP is the target.
ExactMatchReturned ==
    (InferCalled /\ InferTarget \in AchievableCPs) =>
        (call.ret # None /\ InferredCP = InferTarget)

\* C2: if no combination has the target CP, the call returns a combination
\* of the largest CP below the target, taken over the whole table.
ClosestBelowReturned ==
    (InferCalled /\ InferTarget \notin AchievableCPs /\ BelowTarget # {}) =>
        (call.ret # None /\ InferredCP = SetMax(BelowTarget))

\* C3: a returned tuple has a CP that is at most the target, a multiplier of
\* the bound table and IVs in 0..15.
InferredWithinTarget ==
    (InferCalled /\ call.ret # None) =>
        /\ InferredCP <= InferTarget
        /\ call.ret[1] \in Range(InferTable)
        /\ call.ret[2] \in IVs /\ call.ret[3] \in IVs /\ call.ret[4] \in IVs

\* A call that found no exact match and returned a combination below the
\* target, and (C3 also covers) one that returned an exact match.
InferredWithinTargetWitness ==
    /\ InferCalled
    /\ call.ret # None
    /\ Len(InferTable) >= 3
    /\ InferredCP < InferTarget
    /\ InferredCP > MinCP

\* C4 as claimed: with a non-empty table and a target below the CP of the
\* first entry at IVs (0, 0, 0), the call returns None.
NoneBelowFirstEntry ==
    (/\ InferCalled
     /\ Len(InferTable) > 0
     /\ InferTarget < calc_cp(call.args[1], call.args[2], call.args[3], InferTable[1], 0, 0, 0))
        => call.ret = None

\* C4 as amended: with a non-empty table and a target below the CP at IVs
\* (0, 0, 0) of every entry, the call returns None.
NoneBelowEveryEntry ==
    (/\ InferCalled
     /\ Len(InferTable) > 0
     /\ \A i \in DOMAIN InferTable :
            InferTarget < calc_cp(call.args[1], call.args[2], call.args[3], InferTable[i], 0, 0, 0))
        => call.ret = None

\* A call on a table of several levels with a target that is at least the
\* floor of calc_cp and below every entry's CP at IVs (0, 0, 0).
NoneBelowEveryEntryWitness ==
    /\ InferCalled
    /\ Len(InferTable) >= 3
    /\ InferTarget >= MinCP
    /\ \A i \in DOMAIN InferTable :
           InferTarget < calc_cp(call.args[1], call.args[2], call.args[3], InferTable[i], 0, 0, 0)
    /\ call.ret = None

---------------------------------------------------------------------------
(* The CPMultipliers table that feed builds                                *)

\* A template whose identifier has none of the shapes of feed.
UnmatchedTemplate == [ templateId |-> << "X" >> ]

LevelSettingsTemplates == { LevelTemplate(l) : l \in LevelLists } \cup { UnmatchedTemplate }

\* Files of one or two templates.
LevelSettingsFiles ==
    { << t >> : t \in LevelSettingsTemplates }
        \cup { << t, u >> : t \in LevelSettingsTemplates, u \in LevelSettingsTemplates }

NextLevels ==
    \/ Clear
    \/ /\ Idle
       /\ \E file \in LevelSettingsFiles : Feed(file)
    \/ \E level2 \in 0 .. 2 * MaxLevels + 1 : SearchCPM(level2)
    \/ Continue

SpecLevels == Init /\ [][NextLevels]_vars

\* The PLAYER_LEVEL_SETTINGS templates of a file.
LevelTemplatesOf(file) ==
    SelectSeq(file, LAMBDA t : t.templateId = T_PLAYER_LEVEL_SETTINGS)

\* C6 as claimed: in every state reached by clear and feeds of templates
\* with strictly increasing positive multipliers, CPMultipliers is strictly
\* increasing, its entries at even (0-based) indices are source multipliers
\* and each entry at an odd index lies strictly between its neighbours.
CPMultipliersIncreasing ==
    /\ \A i \in 1 .. Len(CPMultipliers) - 1 : CPMultipliers[i] < CPMultipliers[i + 1]
    /\ \A i \in DOMAIN CPMultipliers : i % 2 = 1 => CPMultipliers[i] \in SourceCPMs

\* C6 as amended: after a completed feed of a file with exactly one
\* PLAYER_LEVEL_SETTINGS template, of strictly increasing positive
\* multipliers, into an empty CPMultipliers table, the table is strictly
\* increasing, its entry at even (0-based) index 2k is the k-th source
\* multiplier, its entry at each odd index is the interpolation of its two
\* neighbours (in squares: their mean) and lies strictly between them, and
\* search_cpm of level 1 + i/2 is the entry at index i.
FedLevelsIncreasing ==
    (/\ call.op = "feed"
     /\ call.raised = ""
     /\ Len(LevelTemplatesOf(call.args)) = 1
     /\ Len(CPMultipliers) = 2 * Len(LevelTemplatesOf(call.args)[1].playerLevel.cpMultiplier) - 1)
        =>
        LET source == LevelTemplatesOf(call.args)[1].playerLevel.cpMultiplier
        IN  /\ \A i \in 1 .. Len(CPMultipliers) - 1 : CPMultipliers[i] < CPMultipliers[i + 1]
            /\ \A k \in DOMAIN source : CPMultipliers[2 * k - 1] = source[k]
            /\ \A k \in 1 .. Len(source) - 1 :
                   /\ 2 * CPMultipliers[2 * k] = source[k] + source[k + 1]
                   /\ CPMultipliers[2 * k - 1] < CPMultipliers[2 * k]
                   /\ CPMultipliers[2 * k] < CPMultipliers[2 * k + 1]
            /\ \A i \in DOMAIN CPMultipliers :
                   search_cpm(Store, i + 1) = Return(CPMultipliers[i])

\* A completed feed of one template of MaxLevels multipliers, next to an
\* unmatched template, into an empty table.
FedLevelsIncreasingWitness ==
    /\ call.op = "feed"
    /\ call.raised = ""
    /\ Len(call.args) = 2
    /\ Len(LevelTemplatesOf(call.args)) = 1
    /\ Len(LevelTemplatesOf(call.args)[1].playerLevel.cpMultiplier) = MaxLevels
    /\ Len(CPMultipliers) = 2 * MaxLevels - 1

---------------------------------------------------------------------------
(* The friendship table that feed builds, and search_friend                *)

\* The number of friendship tiers of a game master file.
NumTiers == Len(alter_names)

\* attackBonusPercentage of tier i, in hundredths.
TierBonus(i) == 100 + 3 * i

FriendshipTemplate(i, multiplier) ==
    [ templateId |-> T_FRIENDSHIP_LEVEL \o IntToStr(i),
      friendshipMilestoneSettings |-> [ attackBonusPercentage |-> multiplier ] ]

\* A friendship template without its attackBonusPercentage: line 264
\* raises KeyError.
BrokenFriendshipTemplate ==
    [ templateId |-> T_FRIENDSHIP_LEVEL \o IntToStr(9),
      friendshipMilestoneSettings |-> EmptyDict ]

\* The files with the five tiers, in every order.
TierFiles ==
    { [ k \in 1 .. NumTiers |-> FriendshipTemplate(order[k], TierBonus(order[k])) ] :
        order \in { f \in [ 1 .. NumTiers -> 0 .. NumTiers - 1 ] :
                      \A i \in 1 .. NumTiers : \A j \in 1 .. NumTiers : i # j => f[i] # f[j] } }

\* Files of one or two templates: two tiers, a tier with the bonus of
\* another one, and the broken template.
PartialTierTemplates ==
    { FriendshipTemplate(4, TierBonus(4)), FriendshipTemplate(1, TierBonus(1)),
      FriendshipTemplate(2, TierBonus(4)), BrokenFriendshipTemplate }

PartialTierFiles ==
    { << t >> : t \in PartialTierTemplates }
        \cup { << t, u >> : t \in PartialTierTemplates, u \in PartialTierTemplates }

\* The arguments of search_friend: the alternative names, one of them with
\* capitals and blanks around it, a name that no tier has, ranks as int and
\* as str, and the template identifier of a tier.
FriendshipArguments ==
    { [ str |-> alter_names[i] ] : i \in DOMAIN alter_names }
        \cup { [ str |-> << " ", "G", "r", "e", "a", "t", " " >> ], [ str |-> << "x" >> ] }
        \cup { [ int |-> i ] : i \in 0 .. NumTiers }
        \cup { [ str |-> << "1" >> ], [ str |-> T_FRIENDSHIP_LEVEL \o << "1" >> ] }

NextFriends ==
    \/ Clear
    \/ /\ Idle
       /\ \E file \in TierFiles \cup PartialTierFiles : Feed(file)
    \/ /\ Idle
       /\ \E friendship \in FriendshipArguments : SearchFriend(friendship)
    \/ Continue

SpecFriends == Init /\ [][NextFriends]_vars

\* C7: after every feed that completes, whatever the order of the
\* FRIENDSHIP_LEVEL templates in the file, FriendAttackBonusMultipliers is
\* sorted ascending by multiplier; and with five tiers in the table,
\* search_friend of 'none', 'good', 'great', 'ultra', 'best' returns the
\* multiplier stored at rank 0, 1, 2, 3, 4.
FriendsSortedAndRanked ==
    /\ (call.op = "feed" /\ call.raised = "") =>
           \A i \in 1 .. Len(FriendAttackBonusMultipliers) - 1 :
               FriendAttackBonusMultipliers[i].multiplier
                   <= FriendAttackBonusMultipliers[i + 1].multiplier
    /\ (call.op = "search_friend" /\ Len(FriendAttackBonusMultipliers) = NumTiers) =>
           \A rank \in 0 .. NumTiers - 1 :
               call.args[1] = [ str |-> alter_names[rank + 1] ] =>
                   /\ call.raised = ""
                   /\ call.ret = FriendAttackBonusMultipliers[rank + 1].multiplier
    /\ (call.op = "feed" /\ call.raised = "" /\ Len(FriendAttackBonusMultipliers) = NumTiers) =>
           \A rank \in 0 .. NumTiers - 1 :
               search_friend(Store, [ str |-> alter_names[rank + 1] ])
                   = Return(FriendAttackBonusMultipliers[rank + 1].multiplier)

\* A completed feed of the five tiers, the highest tier first in the file,
\* after which the table holds the five tiers.
FriendsSortedAndRankedWitness ==
    /\ call.op = "feed"
    /\ call.raised = ""
    /\ Len(call.args) = NumTiers
    /\ call.args[1].friendshipMilestoneSettings.attackBonusPercentage = TierBonus(NumTiers - 1)
    /\ Len(FriendAttackBonusMultipliers) = NumTiers
    /\ FriendAttackBonusMultipliers[NumTiers].multiplier = TierBonus(NumTiers - 1)

---------------------------------------------------------------------------
(* _search and search_pokemon                                              *)

\* A species template: V<dex>_POKEMON_<NAME> of type fire with base stats b.
PokemonTemplate(dex, name, b) ==
    [ templateId |-> T_V \o dex \o T_POKEMON \o name,
      pokemonSettings |->
          [ type |-> T_POKEMON_TYPE \o << "F", "I", "R", "E" >>,
            stats |-> [ baseAttack |-> b[1], baseDefense |-> b[2], baseStamina |-> b[3] ] ] ]

\* Two species: feed names them "ab" and "c d".
SpeciesAB == PokemonTemplate(<< "0", "1" >>, << "A", "B" >>, << 50, 40, 60 >>)

SpeciesCD == PokemonTemplate(<< "0", "2" >>, << "C", "_", "D" >>, << 20, 30, 25 >>)

SearchedSpecies == { SpeciesAB, SpeciesCD }

SearchedFiles ==
    { << t >> : t \in SearchedSpecies } \cup { << t, u >> : t \in SearchedSpecies, u \in SearchedSpecies }

\* The entities of the tables passed to _search itself: names that differ
\* in capitals and in blanks around and inside them.
SearchedEntities ==
    { [ name |-> << "a", "b" >>, dex |-> 1 ],
      [ name |-> << " ", "A", "b" >>, dex |-> 2 ],
      [ name |-> << "a", " ", "b" >>, dex |-> 3 ],
      [ name |-> << "c" >>, dex |-> 0 ] }

\* The longest table passed to _search itself.
MaxUniverseLen == 3

SearchedUniverses == UNION { [ 1 .. n -> SearchedEntities ] : n \in 0 .. MaxUniverseLen }

SearchCriteria ==
    { [ str |-> << "a", "b" >> ], [ str |-> << "A", "B", " " >> ], [ str |-> << "z" >> ],
      [ fn |-> "lambda x: True" ], [ fn |-> "lambda x: False" ],
      [ fn |-> "lambda x: x['dex'] > 1" ], [ fn |-> "lambda x: x['name'] == 'ab'" ] }

NextSearch ==
    \/ Clear
    \/ /\ Idle
       /\ \E file \in SearchedFiles : Feed(file)
    \/ /\ Idle
       /\ \E universe \in SearchedUniverses, criteria \in SearchCriteria, all \in BOOLEAN :
              Search(universe, criteria, all)
    \/ /\ Idle
       /\ \E criteria \in SearchCriteria, all \in BOOLEAN : SearchPokemon(criteria, all)
    \/ Continue

SpecSearch == Init /\ [][NextSearch]_vars

\* A string without the whitespace at its two ends.
Trimmed(str) ==
    LET inked == { i \in DOMAIN str : str[i] \notin Whitespace }
    IN  IF inked = {} THEN << >> ELSE SubSeq(str, SetMin(inked), SetMax(inked))

\* Two strings are equal after trimming and lowercasing both.
SameName(a, b) ==
    /\ Len(Trimmed(a)) = Len(Trimmed(b))
    /\ \A i \in DOMAIN Trimmed(a) : LowerChar(Trimmed(a)[i]) = LowerChar(Trimmed(b)[i])

Satisfies(entity, criteria) ==
    IF Has(criteria, "str") THEN SameName(entity.name, criteria.str)
    ELSE Callback(criteria.fn, entity)

\* What the claim says a search of a table answers.
SearchAnswers(universe, criteria, all) ==
    LET satisfying == { i \in DOMAIN universe : Satisfies(universe[i], criteria) }
    IN  IF all
        THEN /\ call.raised = ""
             /\ call.ret = SelectSeq(universe, LAMBDA entity : Satisfies(entity, criteria))
        ELSE IF satisfying = {}
        THEN call.raised = "Exception"
        ELSE /\ call.raised = ""
             /\ call.ret = universe[SetMin(satisfying)]

\* C8: _search in first-match mode returns the satisfying entity of lowest
\* table position and raises its not-found exception exactly when no entity
\* satisfies the criteria; in all-matches mode it never raises and returns
\* exactly the satisfying entities in table order.  A string criteria is
\* satisfied by the entities whose name equals it after trimming and
\* lowercasing both.  A search leaves the tables of the store as they were.
SearchCorrect ==
    /\ [](/\ call.op = "_search" => SearchAnswers(call.args[1], call.args[2], call.args[3])
          /\ call.op = "search_pokemon" => SearchAnswers(Pokemon, call.args[1], call.args[2]))
    /\ [][call'.op \in { "_search", "search_pokemon" } => UNCHANGED store_vars]_vars

\* A first-match search by a name in capitals with a blank, on a table whose
\* first entity does not match and whose next two match under different
\* spellings: the second entity is returned.
SearchCorrectWitness ==
    /\ call.op = "_search"
    /\ call.args[3] = FALSE
    /\ call.args[2] = [ str |-> << "A", "B", " " >> ]
    /\ Len(call.args[1]) = 3
    /\ call.args[1][1].name = << "a", " ", "b" >>
    /\ call.args[1][2].name = << " ", "A", "b" >>
    /\ call.args[1][3].name = << "a", "b" >>
    /\ call.ret = call.args[1][2]

---------------------------------------------------------------------------
(* The forms of the argument of search_friend                              *)

\* The text of the argument of the call of search_friend.
FriendshipText ==
    IF Has(call.args[1], "str") THEN call.args[1].str ELSE IntToStr(call.args[1].int)

\* The positions of the tiers of the table that the argument names: by
\* the template identifier, by the index, or by the alternative name in any
\* letter case.
NamedTiers ==
    { p \in DOMAIN FriendAttackBonusMultipliers :
        \/ FriendshipText = FriendAttackBonusMultipliers[p].name
        \/ FriendshipText = IntToStr(p - 1)
        \/ /\ p <= NumTiers
           /\ SameName(FriendshipText, alter_names[p]) }

\* C11: search_friend returns the multiplier of a tier for the template
\* identifier of the tier, its index as an int or a str, and its alternate
\* name in any letter case, and raises only when the argument names no tier
\* of the table.
FriendFoundByEveryForm ==
    call.op = "search_friend" =>
        IF NamedTiers = {} THEN call.raised # ""
        ELSE /\ call.raised = ""
             /\ \E p \in NamedTiers : call.ret = FriendAttackBonusMultipliers[p].multiplier

---------------------------------------------------------------------------
(* apply: the export of the type-effectiveness matrix                      *)

\* NAME of a type name: the last part of the identifier POKEMON_TYPE_<NAME>.
UpperName(name) ==
    [ i \in DOMAIN name |-> UpperChars[CHOOSE j \in DOMAIN LowerChars : LowerChars[j] = name[i]] ]

\* The attackScalar list of attacker type t1 in a chart: one value for each
\* defender type, all values of a chart different.
AttackScalars(chart, t1) ==
    [ idx \in 1 .. NumTypes |-> 1000 * chart + NumTypes * t1 + (idx - 1) ]

TypeTemplate(t1, attackScalar) ==
    [ templateId |-> T_POKEMON_TYPE \o UpperName(PoketypeList[t1 + 1]),
      typeEffective |-> [ attackScalar |-> attackScalar ] ]

\* The POKEMON_TYPE templates of all types.
ChartFile == [ k \in 1 .. NumTypes |-> TypeTemplate(k - 1, AttackScalars(1, k - 1)) ]

\* A row of the last type that lacks the scalar of the last defender type.
ShortRowFile ==
    << TypeTemplate(NumTypes - 1, SubSeq(AttackScalars(2, NumTypes - 1), 1, NumTypes - 1)) >>

StatStageFile ==
    << [ templateId |-> T_COMBAT_STAT_STAGE_SETTINGS,
         combatStatStageSettings |->
             [ attackBuffMultiplier |-> << 50, 100, 200 >>, minimumStatStage |-> -1 ] ] >>

BattleSettingsFile ==
    << [ templateId |-> T_BATTLE_SETTINGS,
         battleSettings |-> [ sameTypeAttackBonusMultiplier |-> 120, maximumEnergy |-> 100 ] ] >>

WeatherFile ==
    << [ templateId |-> T_WEATHER_AFFINITY \o << "C", "L", "E", "A", "R" >>,
         weatherAffinities |->
             [ weatherCondition |-> << "C", "L", "E", "A", "R" >>,
               pokemonType |-> << T_POKEMON_TYPE \o << "F", "I", "R", "E" >>,
                                T_POKEMON_TYPE \o << "G", "R", "A", "S", "S" >> >> ] ] >>

ApplyFiles ==
    { ChartFile, ShortRowFile, StatStageFile, BattleSettingsFile, WeatherFile,
      ChartFile \o StatStageFile \o WeatherFile }

NextApply ==
    \/ Clear
    \/ \E file \in ApplyFiles : Feed(file)
    \/ Apply
    \/ Continue

SpecApply == Init /\ [][NextApply]_vars

\* The matrix holds every (attacker, defender) pair of the canonical types.
MatrixComplete ==
    \A t1 \in DOMAIN PoketypeList : \A t2 \in DOMAIN PoketypeList :
        /\ Has(TypeEffectiveness, PoketypeList[t1])
        /\ Has(TypeEffectiveness[PoketypeList[t1]], PoketypeList[t2])

\* The set_effectiveness calls the engine received, in order.
EffectivenessWrites == SelectSeq(engine.calls, LAMBDA c : c[1] = "set_effectiveness")

\* 324 writes, one for each ordered pair of type indices, each with the
\* stored multiplier of its pair, and all after set_num_types(18).
MatrixExported ==
    /\ Len(EffectivenessWrites) = 18 * 18
    /\ \A k \in DOMAIN EffectivenessWrites :
           /\ EffectivenessWrites[k][2] \in 0 .. 17
           /\ EffectivenessWrites[k][3] \in 0 .. 17
           /\ EffectivenessWrites[k][4] =
                  TypeEffectiveness[PoketypeList[EffectivenessWrites[k][2] + 1]]
                                   [PoketypeList[EffectivenessWrites[k][3] + 1]]
    /\ Cardinality({ << EffectivenessWrites[k][2], EffectivenessWrites[k][3] >> :
                       k \in DOMAIN EffectivenessWrites }) = 18 * 18
    /\ \E n \in DOMAIN engine.calls :
           /\ engine.calls[n] = << "set_num_types", 18 >>
           /\ \A k \in DOMAIN engine.calls :
                  engine.calls[k][1] = "set_effectiveness" => n < k

\* C9 as claimed: when apply runs on a store whose matrix holds every pair
\* of the 18 types, it issues exactly 324 set_effectiveness writes, one for
\* each ordered pair (t1, t2) with the stored multiplier of t1 against t2,
\* after declaring the type count as 18.
CompleteMatrixExported ==
    (call.op = "apply" /\ MatrixComplete) => MatrixExported

\* C9 as amended: the same, when the PvP settings of the store hold
\* attackBuffMultiplier, which line 298 reads before the export.
CompleteMatrixExportedAfterStages ==
    (/\ call.op = "apply"
     /\ MatrixComplete
     /\ Has(PvPBattleSettings, "attackBuffMultiplier"))
        => MatrixExported

\* An apply that returned, on a store with the whole chart, the stat stage
\* settings and a weather, so that other calls follow the writes.
CompleteMatrixExportedWitness ==
    /\ call.op = "apply"
    /\ call.raised = ""
    /\ MatrixComplete
    /\ Has(PvPBattleSettings, "attackBuffMultiplier")
    /\ Len(WeatherSettings) > 0
    /\ Len(engine.calls) > 18 * 18 + 2

---------------------------------------------------------------------------
(* IPokemon requests of the roles                                          *)

\* The file of the requests' store: the two species and the levels.
SpeciesFile == << SpeciesAB, SpeciesCD >>

RequestFiles ==
    { SpeciesFile } \cup { SpeciesFile \o file : file \in LevelFiles } \cup LevelFiles

\* The parts of a request: each is a dict of the keys it gives.
RequestNames == { [ name |-> << "a", "b" >> ], [ name |-> << "C", " ", "d" >> ],
                  [ name |-> << "z" >> ] }

RequestRoles ==
    { EmptyDict } \cup { [ role |-> r ] : r \in { ROLE_PVE_ATTACKER, ROLE_PVP_ATTACKER,
                                                   ROLE_GYM_DEFENDER, ROLE_RAID_BOSS } }

\* The selection of the stats: by default, by cp, by level (twice its
\* value), or by level and IVs.
RequestSelections ==
    { EmptyDict }
        \cup { [ cp |-> cp ] : cp \in { 0, 12, 25, 40 } }
        \cup { [ level |-> level2 ] : level2 \in 2 .. 2 * MaxLevels + 1 }
        \cup { [ level |-> level2, atkiv |-> 7, defiv |-> 0, stmiv |-> 3 ] :
                 level2 \in 2 .. 2 * MaxLevels }

RequestTiers == { EmptyDict, [ tier |-> 3 ], [ tier |-> 7 ] }

Requests ==
    { DictUpdate(DictUpdate(DictUpdate(n, r), s), t) :
        n \in RequestNames, r \in RequestRoles, s \in RequestSelections, t \in RequestTiers }

NextRequest ==
    \/ Clear
    \/ \E file \in RequestFiles : Feed(file)
    \/ BindIPokemon
    \/ BindIMove
    \/ /\ Idle
       /\ \E p_dict \in Requests : NewIPokemon(p_dict)
    \/ Continue

SpecRequest == Init /\ [][NextRequest]_vars

\* The call built a gym defender.
GymDefenderBuilt ==
    /\ call.op = "IPokemon"
    /\ call.raised = ""
    /\ Get(call.args[1], "role", ROLE_PVE_ATTACKER) = ROLE_GYM_DEFENDER

\* The object of the same request with the role of a regular attacker.
RegularAttacker(role) ==
    IPokemon(BoundStore(binded_gm.IPokemon), BoundStore(binded_gm.IMove),
             DictSet(call.args[1], "role", role))

\* attack and defense are those of the regular attacker and max_hp is
\* twice the regular attacker's.
SameStatsDoubleHP(regular) ==
    /\ regular.raised = ""
    /\ call.ret.attack = regular.ret.attack
    /\ call.ret.defense = regular.ret.defense
    /\ call.ret.max_hp = 2 * regular.ret.max_hp

\* C10 as claimed: for every request with role gym defender, attack and
\* defense equal those of the regular-attacker request of the same species
\* and the same level/IV or cp selection, and max_hp is exactly twice the
\* regular attacker's.
GymDefenderDoubled ==
    GymDefenderBuilt =>
        /\ SameStatsDoubleHP(RegularAttacker(ROLE_PVE_ATTACKER))
        /\ SameStatsDoubleHP(RegularAttacker(ROLE_PVP_ATTACKER))

\* C10 as amended: the same for the gym-defender requests without a tier;
\* with a selection by level and IVs, max_hp is twice
\* floor((baseStamina + stmiv) * cpm).
GymDefenderWithoutTierDoubled ==
    (GymDefenderBuilt /\ ~ Has(call.args[1], "tier")) =>
        /\ SameStatsDoubleHP(RegularAttacker(ROLE_PVE_ATTACKER))
        /\ SameStatsDoubleHP(RegularAttacker(ROLE_PVP_ATTACKER))
        /\ ~ Has(call.args[1], "cp") =>
               \E i \in DOMAIN Pokemon :
                   call.ret.max_hp =
                       2 * isqrt(((Pokemon[i].baseStamina + Get(call.args[1], "stmiv", 15))
                                   * (Pokemon[i].baseStamina + Get(call.args[1], "stmiv", 15))
                                   * call.ret.attack[2]) \div CPMDen)

\* A gym defender built from a cp, and so from an inferred level and IVs,
\* with a max_hp of at least 2.
GymDefenderWithoutTierDoubledWitness ==
    /\ GymDefenderBuilt
    /\ ~ Has(call.args[1], "tier")
    /\ Has(call.args[1], "cp")
    /\ call.ret.max_hp >= 2

---------------------------------------------------------------------------
(* feed and the templates of no recognised shape                           *)

\* Templates whose identifier has none of the shapes of feed: V<digits>_POKEMON_
\* with nothing after it, FRIENDSHIP_LEVEL_ with a non-digit, V_MOVE_ without
\* digits; each with the payload of the shape it resembles.
UnmatchedTemplates ==
    { UnmatchedTemplate,
      [ templateId |-> T_V \o << "0", "1" >> \o T_POKEMON,
        pokemonSettings |-> SpeciesAB.pokemonSettings ],
      [ templateId |-> T_FRIENDSHIP_LEVEL \o << "1", "A" >>,
        friendshipMilestoneSettings |-> [ attackBonusPercentage |-> 90 ] ],
      [ templateId |-> T_V \o T_MOVE \o << "X" >> ] }

MatchedTemplates ==
    { LevelTemplate(<< 2 >>), FriendshipTemplate(4, TierBonus(4)),
      FriendshipTemplate(1, TierBonus(1)), BrokenFriendshipTemplate }

\* Files of one or two templates, and files with an unmatched template
\* between two matched ones.
MixedFiles ==
    { << t >> : t \in MatchedTemplates \cup UnmatchedTemplates }
        \cup { << t, u >> : t \in MatchedTemplates \cup UnmatchedTemplates,
                            u \in MatchedTemplates \cup UnmatchedTemplates }
        \cup { << t, u, v >> : t \in MatchedTemplates, u \in UnmatchedTemplates,
                               v \in MatchedTemplates }

NextIgnore ==
    \/ Clear
    \/ /\ Idle
       /\ \E file \in MixedFiles : Feed(file)
    \/ Continue

SpecIgnore == Init /\ [][NextIgnore]_vars

\* The identifier has one of the recognised shapes.
Recognised(tid) ==
    \/ MatchVersioned(tid, T_V, T_POKEMON)
    \/ MatchVersioned(tid, T_V, T_MOVE)
    \/ MatchVersioned(tid, T_COMBAT_V, T_MOVE)
    \/ MatchPrefix(tid, T_POKEMON_TYPE)
    \/ MatchPrefix(tid, T_WEATHER_AFFINITY)
    \/ (StartsWith(tid, T_FRIENDSHIP_LEVEL) /\ IsDigits(Drop(tid, Len(T_FRIENDSHIP_LEVEL))))
    \/ tid \in { T_PLAYER_LEVEL_SETTINGS, T_BATTLE_SETTINGS, T_COMBAT_SETTINGS,
                 T_COMBAT_STAT_STAGE_SETTINGS, T_WEATHER_BONUS_SETTINGS }

\* The file without its templates of no recognised shape.
WithoutUnmatched(file) == SelectSeq(file, LAMBDA t : Recognised(t.templateId))

\* C12: a template whose identifier has none of the recognised shapes
\* raises no exception and changes no table: a feed leaves the tables, and
\* raises, as the feed of the same file without those templates does.
UnmatchedIgnored ==
    [][call'.op = "feed" =>
          /\ Store' = feed(Store, WithoutUnmatched(call'.args)).gm
          /\ call'.raised = feed(Store, WithoutUnmatched(call'.args)).raised
          /\ WithoutUnmatched(call'.args) = << >> => call'.raised = ""]_vars

\* A completed feed of a file with an unmatched template between two
\* matched ones, both of which reached their tables.
UnmatchedIgnoredWitness ==
    /\ call.op = "feed"
    /\ call.raised = ""
    /\ Len(call.args) = 3
    /\ ~ Recognised(call.args[2].templateId)
    /\ Has(call.args[2], "friendshipMilestoneSettings")
    /\ call.args[1].templateId = T_PLAYER_LEVEL_SETTINGS
    /\ Len(CPMultipliers) = 1
    /\ Len(FriendAttackBonusMultipliers) = 1

---------------------------------------------------------------------------
(* BATTLE_SETTINGS and WEATHER_BONUS_SETTINGS in one file                  *)

WeatherBonusTemplate ==
    [ templateId |-> T_WEATHER_BONUS_SETTINGS,
      weatherBonusSettings |-> [ attackBonusMultiplier |-> 120 ] ]

\* The two templates in both orders, each alone, and the stat stage
\* settings that apply reads.
SettingsFiles ==
    { BattleSettingsFile \o << WeatherBonusTemplate >>,
      << WeatherBonusTemplate >> \o BattleSettingsFile,
      BattleSettingsFile, << WeatherBonusTemplate >>, StatStageFile }

NextSettings ==
    \/ Clear
    \/ \E file \in SettingsFiles : Feed(file)
    \/ Apply
    \/ Continue

SpecSettings == Init /\ [][NextSettings]_vars

\* The templates of a file with the given identifier.
TemplatesOf(file, tid) == SelectSeq(file, LAMBDA t : t.templateId = tid)

\* C13: after the feed of a file with a BATTLE_SETTINGS and a
\* WEATHER_BONUS_SETTINGS template, in either order, the PvE settings hold
\* weatherAttackBonusMultiplier with the value of the weather template and
\* every entry of BATTLE_SETTINGS, and apply exports
\* weather_attack_bonus_multiplier.
WeatherBonusKeptInBothOrders ==
    (/\ call.op = "feed"
     /\ call.raised = ""
     /\ Len(TemplatesOf(call.args, T_BATTLE_SETTINGS)) = 1
     /\ Len(TemplatesOf(call.args, T_WEATHER_BONUS_SETTINGS)) = 1)
        =>
        LET battle == TemplatesOf(call.args, T_BATTLE_SETTINGS)[1].battleSettings
            bonus == TemplatesOf(call.args, T_WEATHER_BONUS_SETTINGS)[1]
                         .weatherBonusSettings.attackBonusMultiplier
        IN  /\ Has(PvEBattleSettings, "weatherAttackBonusMultiplier")
            /\ PvEBattleSettings["weatherAttackBonusMultiplier"] = bonus
            /\ \A name \in DOMAIN battle :
                   Has(PvEBattleSettings, name) /\ PvEBattleSettings[name] = battle[name]
            /\ Has(apply(Store).engine.parameters, "weather_attack_bonus_multiplier")
            /\ apply(Store).engine.parameters["weather_attack_bonus_multiplier"] = bonus

===========================================================================
